---- MODULE Spec2Model ----
(***************************************************************************)
(* SD / eMMC card bring-up of the uSDHC driver (imx6/usdhc/sd.go).         *)
(*                                                                         *)
(* 32-bit words are sets of bit positions (a subset of 0..31), so that the *)
(* full unsigned range and its wrap-around are representable; the latched *)
(* long response is a set of bit positions as well.  Go's int is 32 bits   *)
(* on the only supported target (GOARCH=arm, arm/arm.go:15).               *)
(***************************************************************************)
EXTENDS Integers, Sequences, FiniteSets

\* ------------------------------------------------------------------ bounds
TicksPerSecond == 3
MaxDt == 2
MaxSlot == 1

\* ------------------------------------------------------- words and integers
BitsOf(n) == {i \in 0..30 : (n \div (2^i)) % 2 = 1}

RECURSIVE Val(_)
Val(w) == IF w = {} THEN 0
          ELSE LET i == CHOOSE x \in w : TRUE IN (2^i) + Val(w \ {i})

Shl(w, k) == {i + k : i \in w} \cap (0..31)

Shr(w, k) == {i - k : i \in {j \in w : j >= k}}

Not32(w) == (0..31) \ w

Add32(a, b) ==
    LET lo == Val(a \cap (0..15)) + Val(b \cap (0..15))
        hi == Val(Shr(a, 16)) + Val(Shr(b, 16)) + (lo \div 65536)
    IN  BitsOf(lo % 65536) \cup Shl(BitsOf(hi % 65536), 16)

Sub32(a, b) == Add32(a, Add32(Not32(b), {0}))

RECURSIVE Mul32(_, _)
Mul32(a, b) == IF b = {} THEN {}
               ELSE LET i == CHOOSE x \in b : TRUE
                    IN  Add32(Shl(a, i), Mul32(a, b \ {i}))

\* Go's x << s for a 32-bit x and an unsigned count s: zero once s >= 32
ShlVar(x, s) == IF s \cap (5..31) # {} THEN {} ELSE Shl(x, Val(s))

\* the value of a word read as Go's int (two's complement, 32 bits)
IntVal(w) == IF 31 \in w THEN (Val(w \ {31}) - (2^30)) - (2^30) ELSE Val(w)

\* ------------------------------------------------------- bit-field codec
SetN(w, pos, mask, val) ==
    (w \ Shl(BitsOf(mask), pos)) \cup Shl(BitsOf(val) \cap BitsOf(mask), pos)

Set(w, pos) == w \cup {pos}

Get(w, pos, mask) == Val(Shr(w, pos) \cap BitsOf(mask))

\* --------------------------------------------------------------- constants
CMD8_ARG_VHS == 8
CMD8_ARG_CHECK_PATTERN == 0
VHS_HIGH == 1
VHS_LOW == 2
CHECK_PATTERN == 170

SD_OCR_BUSY == 31
SD_OCR_HCS == 30
SD_OCR_XPC == 28
SD_OCR_VDD_HV_MIN == 15
SD_OCR_VDD_LV == 7

SD_SWITCH_MODE == 0
SD_SWITCH_ACCESS_MODE == 0
MODE_SWITCH == 1
ACCESS_MODE_HS == 1

CSD_RSP_OFF == 0 - 8
SD_CSD_STRUCTURE == 126 + CSD_RSP_OFF
SD_CSD_C_SIZE_MULT_1 == 47 + CSD_RSP_OFF
SD_CSD_C_SIZE_1 == 62 + CSD_RSP_OFF
SD_CSD_READ_BL_LEN_1 == 80 + CSD_RSP_OFF
SD_CSD_C_SIZE_2 == 48 + CSD_RSP_OFF
SD_CSD_READ_BL_LEN_2 == 80 + CSD_RSP_OFF

SD_DETECT_TIMEOUT == 1 * TicksPerSecond
SD_DEFAULT_BLOCK_SIZE == 512

MMC_OCR_BUSY == 31
MMC_OCR_ACCESS_MODE == 29
MMC_OCR_VDD_HV_MIN == 15
ACCESS_MODE_SECTOR == 2

MMC_SWITCH_ACCESS == 24
MMC_SWITCH_INDEX == 16
MMC_SWITCH_VALUE == 8
ACCESS_WRITE_BYTE == 3

MMC_CSD_C_SIZE_MULT == 47 + CSD_RSP_OFF
MMC_CSD_C_SIZE == 62 + CSD_RSP_OFF
MMC_CSD_READ_BL_LEN == 80 + CSD_RSP_OFF
MMC_CSD_TRAN_SPEED == 96 + CSD_RSP_OFF
MMC_CSD_SPEC_VERS == 122 + CSD_RSP_OFF
TRAN_SPEED_26MHZ == 50

EXT_CSD_BUS_WIDTH == 183
EXT_CSD_HS_TIMING == 185
EXT_CSD_SEC_COUNT == 212
HS_TIMING_HS == 1

MMC_DETECT_TIMEOUT == 1 * TicksPerSecond
MMC_DEFAULT_BLOCK_SIZE == 512

\* card status word (R1) and controller constants used by sd.go
STATUS_CURRENT_STATE == 9
STATUS_APP_CMD == 5
CURRENT_STATE_IDENT == 2
CURRENT_STATE_TRAN == 4
RCA_ADDR == 16

DVS_OP == "DVS_OP"
SDCLKFS_OP == "SDCLKFS_OP"
DVS_HS == "DVS_HS"
SDCLKFS_HS_SDR == "SDCLKFS_HS_SDR"
SDCLKFS_HS_DDR == "SDCLKFS_HS_DDR"
CLK_OFF == "0"

\* ------------------------------------------------------------------- state
VARIABLES
    op,       \* the running entry point
    pc,       \* its position
    width,    \* hw.width, the configured bus width
    n,        \* hw.n, the controller index
    card,     \* hw.card: BlockSize, Blocks, HS, DDR
    rca,      \* hw.rca
    rsp,      \* the latched response (bit positions)
    loc,      \* locals that live across commands
    elapsed,  \* time.Since(start) at the last loop head, in ticks
    err,      \* the error returned by initSD / initMMC
    ret,      \* the pair returned by voltageValidationSD / MMC
    log,      \* every call made on the controller, in order
    heads,    \* the elapsed times read at the loop heads
    wr        \* how many times each descriptor field was assigned

vars == <<op, pc, width, n, card, rca, rsp, loc, elapsed, err, ret, log, heads, wr>>

NoClk == <<"", "">>

Cmd(idx, arg, ok, r) ==
    [k |-> "cmd", idx |-> idx, arg |-> arg, ok |-> ok, clk |-> NoClk,
     r |-> IF ok THEN r ELSE {}, blocks |-> 0, data |-> <<>>]

Wait(state, ms, ok) ==
    [k |-> "wait", idx |-> state, arg |-> BitsOf(ms), ok |-> ok, clk |-> NoClk,
     r |-> {}, blocks |-> 0, data |-> <<>>]

\* a read of blocks blocks of size bytes (arg holds size); data keeps the four
\* bytes at the sector count offset
Transfer(idx, blocks, size, ok, buf) ==
    [k |-> "transfer", idx |-> idx, arg |-> BitsOf(size), ok |-> ok, clk |-> NoClk,
     r |-> {}, blocks |-> blocks,
     data |-> IF ok THEN [i \in 1..4 |-> buf[EXT_CSD_SEC_COUNT + i - 1]] ELSE <<>>]

setClock(dvs, sdclkfs) ==
    [k |-> "clock", idx |-> 0, arg |-> {}, ok |-> TRUE, clk |-> <<dvs, sdclkfs>>,
     r |-> {}, blocks |-> 0, data |-> <<>>]

NoLoc == [hc |-> FALSE, hv |-> FALSE, arg |-> {},
          c_size_mult |-> 0, c_size |-> 0, read_bl_len |-> 0, ver |-> 0]

Widths == {1, 2, 4, 8}
Slots == 0..MaxSlot
Ops == {"voltageValidationSD", "voltageValidationMMC", "initSD", "initMMC"}

\* the zero descriptor of a controller on which no card was brought up yet
NewCard == [BlockSize |-> 0, Blocks |-> 0, HS |-> FALSE, DDR |-> FALSE]

Init ==
    /\ op = "none"
    /\ pc = "idle"
    /\ width \in Widths
    /\ n \in Slots
    /\ card = NewCard
    /\ rca = {}
    /\ rsp = {}
    /\ loc = NoLoc
    /\ elapsed = 0
    /\ err = "nil"
    /\ ret = <<FALSE, FALSE>>
    /\ log = <<>>
    /\ heads = <<>>
    /\ wr = [BlockSize |-> 0, Blocks |-> 0, HS |-> 0, DDR |-> 0]

Entry(o) == CASE o = "voltageValidationSD" -> "cmd8"
              [] o = "voltageValidationMMC" -> "cmd1"
              [] OTHER -> "cmd2"

\* hw.rsp(i): word i of the latched response
rspWord(r, i) == Shr(r, 32 * i) \cap (0..31)

\* hw.rspVal(pos, mask): a field of the latched response
rspVal(r, pos, mask) == Val(Shr(r, pos) \cap BitsOf(mask))

\* ------------------------------------------------ what the card may answer
Status(state, appcmd) ==
    Shl(BitsOf(state), STATUS_CURRENT_STATE) \cup Shl(BitsOf(appcmd), STATUS_APP_CMD)

IfCondHigh == Shl(BitsOf(VHS_HIGH), CMD8_ARG_VHS) \cup BitsOf(CHECK_PATTERN)
IfCondLow == Shl(BitsOf(VHS_LOW), CMD8_ARG_VHS) \cup BitsOf(CHECK_PATTERN)

R7s == {IfCondHigh, IfCondLow, {}}
OCRs == {{}, {30}, {31}, {31, 30}, {31, 29}, {31, 30, 29} \cup (15..23)}
R1Idle == {Status(0, 1)}
Dts == 1..MaxDt

\* ----------------------------------------------------- voltageValidationSD
\* the pair returned when a command of the polling loop fails
ErrorReturn == <<FALSE, FALSE>>

TimeoutReturn_distinct == <<FALSE, TRUE>>

\* the pair returned when the loop condition ends the loop
TimeoutReturn == <<FALSE, FALSE>>

WithinSD_strict(e) == e < SD_DETECT_TIMEOUT

\* the loop conditions, time.Since(start) <= ..._DETECT_TIMEOUT
WithinSD(e) == e <= SD_DETECT_TIMEOUT

WithinMMC_late(e) == e <= MMC_DETECT_TIMEOUT + 1

WithinMMC(e) == e <= MMC_DETECT_TIMEOUT

OCRArgSD_no_xpc(hc, hv) ==
    LET a0 == IF hc THEN Set({}, SD_OCR_HCS) ELSE {}
    IN  IF hv THEN SetN(a0, SD_OCR_VDD_HV_MIN, 511, 511) ELSE Set(a0, SD_OCR_VDD_LV)

\* the ACMD41 argument built from hc and hv
OCRArgSD(hc, hv) ==
    LET a0 == IF hc THEN Set(Set({}, SD_OCR_HCS), SD_OCR_XPC) ELSE {}
    IN  IF hv THEN SetN(a0, SD_OCR_VDD_HV_MIN, 511, 511) ELSE Set(a0, SD_OCR_VDD_LV)

\* the caller enters one of the four routines; voltageValidationMMC builds
\* its argument, takes the start time and evaluates the loop condition
Call(o) ==
    /\ pc = "idle"
    /\ op' = o
    /\ pc' = Entry(o)
    /\ heads' = IF o = "voltageValidationMMC" THEN <<0>> ELSE heads
    /\ loc' = IF o = "voltageValidationMMC"
              THEN [loc EXCEPT !.arg = SetN(SetN({}, MMC_OCR_ACCESS_MODE, 3, ACCESS_MODE_SECTOR),
                                            MMC_OCR_VDD_HV_MIN, 511, 511)]
              ELSE loc
    /\ UNCHANGED <<width, n, card, rca, rsp, elapsed, err, ret, log, wr>>

\* start := time.Now() and the first evaluation of the loop condition
EnterLoopSD(hc, hv) ==
    /\ loc' = [loc EXCEPT !.hc = hc, !.hv = hv, !.arg = OCRArgSD(hc, hv)]
    /\ elapsed' = 0
    /\ heads' = <<0>>
    /\ pc' = "cmd55"

\* first CMD8, high-voltage tag
voltageValidationSD_CMD8(ok, r) ==
    /\ op = "voltageValidationSD" /\ pc = "cmd8"
    /\ LET arg == SetN(SetN({}, CMD8_ARG_VHS, 15, VHS_HIGH),
                       CMD8_ARG_CHECK_PATTERN, 255, CHECK_PATTERN)
       IN  /\ log' = Append(log, Cmd(8, arg, ok, r))
           /\ rsp' = IF ok THEN r ELSE rsp
           /\ IF ok /\ rspWord(r, 0) = arg
              THEN EnterLoopSD(TRUE, TRUE)
              ELSE /\ pc' = "cmd8low"
                   /\ UNCHANGED <<loc, elapsed, heads>>
    /\ UNCHANGED <<op, width, n, card, rca, err, ret, wr>>

\* second CMD8, low-voltage tag
voltageValidationSD_CMD8_LOW(ok, r) ==
    /\ op = "voltageValidationSD" /\ pc = "cmd8low"
    /\ LET arg == Shl(BitsOf(VHS_LOW), CMD8_ARG_VHS) \cup BitsOf(CHECK_PATTERN)
       IN  /\ log' = Append(log, Cmd(8, arg, ok, r))
           /\ rsp' = IF ok THEN r ELSE rsp
           /\ IF ok /\ rspWord(r, 0) = arg
              THEN EnterLoopSD(TRUE, FALSE)
              ELSE EnterLoopSD(FALSE, TRUE)
    /\ UNCHANGED <<op, width, n, card, rca, err, ret, wr>>

voltageValidationSD_CMD55_ignore(ok, r) ==
    /\ op = "voltageValidationSD" /\ pc = "cmd55"
    /\ log' = Append(log, Cmd(55, {}, ok, r))
    /\ rsp' = IF ok THEN r ELSE rsp
    /\ pc' = "acmd41"
    /\ UNCHANGED <<op, width, n, card, rca, loc, elapsed, err, ret, heads, wr>>

voltageValidationSD_CMD55(ok, r) ==
    /\ op = "voltageValidationSD" /\ pc = "cmd55"
    /\ log' = Append(log, Cmd(55, {}, ok, r))
    /\ rsp' = IF ok THEN r ELSE rsp
    /\ IF ok
       THEN pc' = "acmd41" /\ UNCHANGED ret
       ELSE pc' = "done" /\ ret' = ErrorReturn
    /\ UNCHANGED <<op, width, n, card, rca, loc, elapsed, err, heads, wr>>

\* ACMD41, the busy test, and the next evaluation of the loop condition
voltageValidationSD_ACMD41(ok, r, dt) ==
    /\ op = "voltageValidationSD" /\ pc = "acmd41"
    /\ log' = Append(log, Cmd(41, loc.arg, ok, r))
    /\ rsp' = IF ok THEN r ELSE rsp
    /\ IF ~ok
       THEN /\ pc' = "done" /\ ret' = ErrorReturn
            /\ UNCHANGED <<loc, elapsed, heads>>
       ELSE IF Get(rspWord(r, 0), SD_OCR_BUSY, 1) = 0
       THEN /\ elapsed' = elapsed + dt
            /\ heads' = Append(heads, elapsed + dt)
            /\ IF WithinSD(elapsed + dt)
               THEN pc' = "cmd55" /\ UNCHANGED ret
               ELSE pc' = "done" /\ ret' = TimeoutReturn
            /\ UNCHANGED loc
       ELSE /\ loc' = [loc EXCEPT !.hc = loc.hc \/ Get(rspWord(r, 0), SD_OCR_HCS, 1) = 1]
            /\ ret' = <<TRUE, loc'.hc>>
            /\ pc' = "done"
            /\ UNCHANGED <<elapsed, heads>>
    /\ UNCHANGED <<op, width, n, card, rca, err, wr>>

\* ---------------------------------------------------- voltageValidationMMC
voltageValidationMMC_CMD1(ok, r, dt) ==
    /\ op = "voltageValidationMMC" /\ pc = "cmd1"
    /\ log' = Append(log, Cmd(1, loc.arg, ok, r))
    /\ rsp' = IF ok THEN r ELSE rsp
    /\ IF ~ok
       THEN /\ pc' = "done" /\ ret' = ErrorReturn
            /\ UNCHANGED <<loc, elapsed, heads>>
       ELSE IF Get(rspWord(r, 0), MMC_OCR_BUSY, 1) = 0
       THEN /\ elapsed' = elapsed + dt
            /\ heads' = Append(heads, elapsed + dt)
            /\ IF WithinMMC(elapsed + dt)
               THEN pc' = "cmd1" /\ UNCHANGED ret
               ELSE pc' = "done" /\ ret' = TimeoutReturn
            /\ UNCHANGED loc
       ELSE /\ loc' = [loc EXCEPT !.hc =
                          Get(rspWord(r, 0), MMC_OCR_ACCESS_MODE, 3) = ACCESS_MODE_SECTOR]
            /\ ret' = <<TRUE, loc'.hc>>
            /\ pc' = "done"
            /\ UNCHANGED <<elapsed, heads>>
    /\ UNCHANGED <<op, width, n, card, rca, err, wr>>

\* ------------------------------------------------ card answers, bring-up
PutAt(val, pos) == {i + pos + CSD_RSP_OFF : i \in BitsOf(val)}

\* a CSD as latched: CSD bit j sits at response bit j + CSD_RSP_OFF.  The
\* size area [75:47] is given as its three parts [61:47], [73:62], [75:74].
MkCSD(structure, spec_vers, tran_speed, read_bl_len, low, mid, high) ==
    PutAt(structure, 126) \cup PutAt(spec_vers, 122) \cup PutAt(tran_speed, 96)
        \cup PutAt(read_bl_len, 80) \cup PutAt(high, 74) \cup PutAt(mid, 62)
        \cup PutAt(low, 47)

SizeAreas == {<<0, 0, 0>>, <<7, 255, 0>>, <<0, 256, 0>>, <<2, 4095, 0>>,
              <<32764, 127, 0>>, <<32766, 127, 0>>, <<32767, 4095, 3>>}

\* every block length with one size area, and every size area with the block
\* lengths 0 and 9
Geometries == {<<rbl, <<7, 255, 0>>>> : rbl \in 0..15}
                  \cup {<<rbl, a>> : rbl \in {0, 9}, a \in SizeAreas}

CSDsSD == {MkCSD(st, 0, TRAN_SPEED_26MHZ, g[1], g[2][1], g[2][2], g[2][3]) :
              st \in 0..3, g \in Geometries}

CSDsMMC == {MkCSD(0, sv, ts, g[1], g[2][1], g[2][2], g[2][3]) :
              sv \in {0, 3, 4, 8}, ts \in {TRAN_SPEED_26MHZ, 42}, g \in Geometries}

CIDs == {{3, 64, 100}}
R6s == {Shl(BitsOf(a), RCA_ADDR) \cup Status(st, 0) \cup lowbits :
           a \in {1, 65535}, st \in {CURRENT_STATE_IDENT, 0, 3, 15}, lowbits \in {{}}}
       \cup {Shl(BitsOf(43690), RCA_ADDR) \cup Status(CURRENT_STATE_IDENT, 1) \cup {0, 15}}
R1Tran == {Status(CURRENT_STATE_TRAN, 0)}
R1App == {Status(CURRENT_STATE_TRAN, 0), Status(CURRENT_STATE_TRAN, 1)}

SecCounts == {<<0, 0, 0, 0>>, <<1, 0, 0, 0>>, <<120, 86, 52, 18>>,
              <<0, 0, 0, 128>>, <<255, 255, 255, 255>>}
ExtCSDs == {[i \in 0..(MMC_DEFAULT_BLOCK_SIZE - 1) |->
                IF i \in EXT_CSD_SEC_COUNT..(EXT_CSD_SEC_COUNT + 3)
                THEN s[i - EXT_CSD_SEC_COUNT + 1]
                ELSE IF i \in {EXT_CSD_SEC_COUNT - 1, EXT_CSD_SEC_COUNT + 4} THEN 238 ELSE 0] :
            s \in SecCounts}

\* binary.LittleEndian.Uint32(buf[off:])
LittleEndianUint32(buf, off) ==
    BitsOf(buf[off]) \cup Shl(BitsOf(buf[off + 1]), 8)
        \cup Shl(BitsOf(buf[off + 2]), 16) \cup Shl(BitsOf(buf[off + 3]), 24)

Fail(e) == pc' = "done" /\ err' = e

\* fmt.Errorf("card not in ident state (%d)", state), state a 4-bit field
IdentErrors == <<"card not in ident state (0)", "card not in ident state (1)",
                 "card not in ident state (2)", "card not in ident state (3)",
                 "card not in ident state (4)", "card not in ident state (5)",
                 "card not in ident state (6)", "card not in ident state (7)",
                 "card not in ident state (8)", "card not in ident state (9)",
                 "card not in ident state (10)", "card not in ident state (11)",
                 "card not in ident state (12)", "card not in ident state (13)",
                 "card not in ident state (14)", "card not in ident state (15)">>
IdentError(state) == IdentErrors[state + 1]

Count(f, fields) == IF f \in fields THEN wr[f] + 1 ELSE wr[f]
Wrote(fields) == wr' = [f \in DOMAIN wr |-> Count(f, fields)]

\* -------------------------------------------------------- detectCapacitySD
\* 2 << (read_bl_len - 1), an int
BlockSizeSD(read_bl_len) ==
    IntVal(ShlVar(BitsOf(2), Sub32(BitsOf(read_bl_len), BitsOf(1))))

\* int((c_size + 1) * (2 << (c_size_mult + 2)))
BlocksCSD1(c_size, c_size_mult) ==
    IntVal(Mul32(Add32(BitsOf(c_size), BitsOf(1)),
                 ShlVar(BitsOf(2), Add32(BitsOf(c_size_mult), BitsOf(2)))))

\* int(c_size+1) * 1024
BlocksCSD2(c_size) ==
    IntVal(Mul32(Add32(BitsOf(c_size), BitsOf(1)), BitsOf(1024)))

\* the switch on the CSD structure version; ok is FALSE for the default case
detectCapacitySD(r) ==
    LET ver == rspVal(r, SD_CSD_STRUCTURE, 3)
    IN  CASE ver = 0 ->
               [ok |-> TRUE,
                BlockSize |-> BlockSizeSD(rspVal(r, SD_CSD_READ_BL_LEN_1, 15)),
                Blocks |-> BlocksCSD1(rspVal(r, SD_CSD_C_SIZE_1, 4095),
                                      rspVal(r, SD_CSD_C_SIZE_MULT_1, 7))]
          [] ver = 1 ->
               [ok |-> TRUE,
                BlockSize |-> BlockSizeSD(rspVal(r, SD_CSD_READ_BL_LEN_2, 15)),
                Blocks |-> BlocksCSD2(rspVal(r, SD_CSD_C_SIZE_2, 4194303))]
          [] ver = 2 ->
               [ok |-> TRUE,
                BlockSize |-> BlockSizeSD(rspVal(r, SD_CSD_READ_BL_LEN_2, 15)),
                Blocks |-> BlocksCSD2(rspVal(r, SD_CSD_C_SIZE_2, 268435455))]
          [] OTHER -> [ok |-> FALSE, BlockSize |-> 0, Blocks |-> 0]

\* ------------------------------------------------------------------ initSD
RcaSD_unmasked(word) == word

\* hw.rsp(0) & (0xffff << RCA_ADDR)
RcaSD(word) == word \cap Shl(BitsOf(65535), RCA_ADDR)

initSD_CMD2(ok, r) ==
    /\ op = "initSD" /\ pc = "cmd2"
    /\ log' = Append(log, Cmd(2, {}, ok, r))
    /\ rsp' = IF ok THEN r ELSE rsp
    /\ IF ok THEN pc' = "cmd3" /\ UNCHANGED err ELSE Fail("cmd")
    /\ UNCHANGED <<op, width, n, card, rca, loc, elapsed, ret, heads, wr>>

initSD_CMD3_late_check(ok, r) ==
    /\ op = "initSD" /\ pc = "cmd3"
    /\ rsp' = IF ok THEN r ELSE rsp
    /\ IF ~ok
       THEN /\ log' = Append(log, Cmd(3, {}, ok, r))
            /\ Fail("cmd") /\ UNCHANGED rca
       ELSE /\ log' = log \o <<Cmd(3, {}, ok, r), setClock(CLK_OFF, CLK_OFF),
                               setClock(DVS_OP, SDCLKFS_OP)>>
            /\ rca' = RcaSD(rspWord(r, 0))
            /\ IF Get(rspWord(r, 0), STATUS_CURRENT_STATE, 15) # CURRENT_STATE_IDENT
               THEN Fail(IdentError(Get(rspWord(r, 0), STATUS_CURRENT_STATE, 15)))
               ELSE pc' = "cmd9" /\ UNCHANGED err
    /\ UNCHANGED <<op, width, n, card, loc, elapsed, ret, heads, wr>>

\* CMD3, the state check, the clock step and the RCA
initSD_CMD3(ok, r) ==
    /\ op = "initSD" /\ pc = "cmd3"
    /\ rsp' = IF ok THEN r ELSE rsp
    /\ IF ~ok
       THEN /\ log' = Append(log, Cmd(3, {}, ok, r))
            /\ Fail("cmd") /\ UNCHANGED rca
       ELSE IF Get(rspWord(r, 0), STATUS_CURRENT_STATE, 15) # CURRENT_STATE_IDENT
       THEN /\ log' = Append(log, Cmd(3, {}, ok, r))
            /\ Fail(IdentError(Get(rspWord(r, 0), STATUS_CURRENT_STATE, 15))) /\ UNCHANGED rca
       ELSE /\ log' = log \o <<Cmd(3, {}, ok, r), setClock(CLK_OFF, CLK_OFF),
                               setClock(DVS_OP, SDCLKFS_OP)>>
            /\ rca' = RcaSD(rspWord(r, 0))
            /\ pc' = "cmd9" /\ UNCHANGED err
    /\ UNCHANGED <<op, width, n, card, loc, elapsed, ret, heads, wr>>

initSD_CMD9_any_version(ok, r) ==
    /\ op = "initSD" /\ pc = "cmd9"
    /\ log' = Append(log, Cmd(9, rca, ok, r))
    /\ rsp' = IF ok THEN r ELSE rsp
    /\ IF ~ok
       THEN Fail("cmd") /\ UNCHANGED <<card, wr>>
       ELSE LET d == detectCapacitySD(r)
            IN  /\ card' = [card EXCEPT !.BlockSize = d.BlockSize, !.Blocks = d.Blocks]
                /\ Wrote({"BlockSize", "Blocks"})
                /\ pc' = "cmd7" /\ UNCHANGED err
    /\ UNCHANGED <<op, width, n, rca, loc, elapsed, ret, heads>>

\* detectCapacitySD: CMD9 and the CSD decode
initSD_CMD9(ok, r) ==
    /\ op = "initSD" /\ pc = "cmd9"
    /\ log' = Append(log, Cmd(9, rca, ok, r))
    /\ rsp' = IF ok THEN r ELSE rsp
    /\ IF ~ok
       THEN Fail("cmd") /\ UNCHANGED <<card, wr>>
       ELSE LET d == detectCapacitySD(r)
            IN  IF d.ok
                THEN /\ card' = [card EXCEPT !.BlockSize = d.BlockSize, !.Blocks = d.Blocks]
                     /\ Wrote({"BlockSize", "Blocks"})
                     /\ pc' = "cmd7" /\ UNCHANGED err
                ELSE Fail("csd") /\ UNCHANGED <<card, wr>>
    /\ UNCHANGED <<op, width, n, rca, loc, elapsed, ret, heads>>

initSD_CMD7(ok, r) ==
    /\ op = "initSD" /\ pc = "cmd7"
    /\ log' = Append(log, Cmd(7, rca, ok, r))
    /\ rsp' = IF ok THEN r ELSE rsp
    /\ IF ok THEN pc' = "wait7" /\ UNCHANGED err ELSE Fail("cmd")
    /\ UNCHANGED <<op, width, n, card, rca, loc, elapsed, ret, heads, wr>>

initSD_waitState(ok) ==
    /\ op = "initSD" /\ pc = "wait7"
    /\ log' = Append(log, Wait(CURRENT_STATE_TRAN, 1, ok))
    /\ IF ok THEN pc' = "cmd55" /\ UNCHANGED err ELSE Fail("wait")
    /\ UNCHANGED <<op, width, n, card, rca, rsp, loc, elapsed, ret, heads, wr>>

BusWidthSD_with8(w) == CASE w = 1 -> 0 [] w = 4 -> 2 [] w = 8 -> 3 [] OTHER -> 0 - 1

\* the ACMD6 argument for the configured width; 0 - 1 stands for the default case
BusWidthSD(w) == CASE w = 1 -> 0 [] w = 4 -> 2 [] OTHER -> 0 - 1

\* CMD55, the app-command check and the bus width switch statement
initSD_CMD55(ok, r) ==
    /\ op = "initSD" /\ pc = "cmd55"
    /\ log' = Append(log, Cmd(55, rca, ok, r))
    /\ rsp' = IF ok THEN r ELSE rsp
    /\ IF ~ok THEN Fail("cmd")
       ELSE IF Get(rspWord(r, 0), STATUS_APP_CMD, 1) # 1 THEN Fail("appcmd")
       ELSE IF BusWidthSD(width) < 0 THEN Fail("width")
       ELSE pc' = "acmd6" /\ UNCHANGED err
    /\ UNCHANGED <<op, width, n, card, rca, loc, elapsed, ret, heads, wr>>

SwitchArgSD_from_zero ==
    SetN(SetN({}, SD_SWITCH_MODE, 1, MODE_SWITCH),
         SD_SWITCH_ACCESS_MODE, 15, ACCESS_MODE_HS)

\* the CMD6 switch argument
SwitchArgSD ==
    SetN(SetN(0..31, SD_SWITCH_MODE, 1, MODE_SWITCH),
         SD_SWITCH_ACCESS_MODE, 15, ACCESS_MODE_HS)

initSD_ACMD6(ok, r) ==
    /\ op = "initSD" /\ pc = "acmd6"
    /\ log' = Append(log, Cmd(6, BitsOf(BusWidthSD(width)), ok, r))
    /\ rsp' = IF ok THEN r ELSE rsp
    /\ IF ok THEN pc' = "cmd6" /\ UNCHANGED err ELSE Fail("cmd")
    /\ UNCHANGED <<op, width, n, card, rca, loc, elapsed, ret, heads, wr>>

initSD_CMD6(ok, r) ==
    /\ op = "initSD" /\ pc = "cmd6"
    /\ log' = Append(log, Cmd(6, SwitchArgSD, ok, r))
    /\ rsp' = IF ok THEN r ELSE rsp
    /\ IF ok THEN pc' = "wait6" /\ UNCHANGED err ELSE Fail("cmd")
    /\ UNCHANGED <<op, width, n, card, rca, loc, elapsed, ret, heads, wr>>

initSD_waitState_HS_checked(ok) ==
    /\ op = "initSD" /\ pc = "wait6"
    /\ log' = log \o <<Wait(CURRENT_STATE_TRAN, 500, ok), setClock(CLK_OFF, CLK_OFF),
                       setClock(DVS_HS, SDCLKFS_HS_SDR)>>
    /\ card' = [card EXCEPT !.HS = ok]
    /\ Wrote({"HS"})
    /\ pc' = "done"
    /\ err' = IF ok THEN "nil" ELSE "wait"
    /\ UNCHANGED <<op, width, n, rca, rsp, loc, elapsed, ret, heads>>

\* the wait after the switch, the clock step and the HS flag
initSD_waitState_HS(ok) ==
    /\ op = "initSD" /\ pc = "wait6"
    /\ log' = log \o <<Wait(CURRENT_STATE_TRAN, 500, ok), setClock(CLK_OFF, CLK_OFF),
                       setClock(DVS_HS, SDCLKFS_HS_SDR)>>
    /\ card' = [card EXCEPT !.HS = TRUE]
    /\ Wrote({"HS"})
    /\ pc' = "done"
    /\ err' = IF ok THEN "nil" ELSE "wait"
    /\ UNCHANGED <<op, width, n, rca, rsp, loc, elapsed, ret, heads>>

\* ---------------------------------------------------- writeCardRegisterMMC
\* the CMD6 argument writing val into Extended CSD register reg
SwitchArgMMC(reg, val) ==
    SetN(SetN(SetN({}, MMC_SWITCH_ACCESS, 3, ACCESS_WRITE_BYTE),
              MMC_SWITCH_INDEX, 255, reg),
         MMC_SWITCH_VALUE, 255, val)

\* ------------------------------------------------------- detectCapacityMMC
\* 2 << (read_bl_len - 1), an int
BlockSizeMMC(read_bl_len) ==
    IntVal(ShlVar(BitsOf(2), Sub32(BitsOf(read_bl_len), BitsOf(1))))

\* int((c_size + 1) * (2 << (c_size_mult + 2)))
BlocksMMC(c_size, c_size_mult) ==
    IntVal(Mul32(Add32(BitsOf(c_size), BitsOf(1)),
                 ShlVar(BitsOf(2), Add32(BitsOf(c_size_mult), BitsOf(2)))))

\* int(binary.LittleEndian.Uint32(extCSD[EXT_CSD_SEC_COUNT:]))
BlocksExtCSD(extCSD) == IntVal(LittleEndianUint32(extCSD, EXT_CSD_SEC_COUNT))

\* c_size > 0xff: the capacity comes from the Extended CSD
Emulation(c_size) == c_size > 255

\* ----------------------------------------------------------------- initMMC
\* the BUS_WIDTH codes; 0 - 1 stands for the default case of the first switch
BusWidthMMC(w) == CASE w = 4 -> 1 [] w = 8 -> 2 [] OTHER -> 0 - 1

BusWidthDDR_sdr(w) == BusWidthMMC(w)

\* the BUS_WIDTH codes of the second switch, which has no default case
BusWidthDDR(w) == CASE w = 4 -> 5 [] w = 8 -> 6 [] OTHER -> BusWidthMMC(w)

UpgradeDDR_from3(ver) == ~(ver < 3)

\* ver >= 4: the HS / DDR stage is entered
UpgradeDDR(ver) == ~(ver < 4)

\* (uint32(hw.n) + 1) << RCA_ADDR
RcaMMC(slot) == Shl(Add32(BitsOf(slot), BitsOf(1)), RCA_ADDR)

\* CMD2, then the RCA is chosen
initMMC_CMD2(ok, r) ==
    /\ op = "initMMC" /\ pc = "cmd2"
    /\ log' = Append(log, Cmd(2, {}, ok, r))
    /\ rsp' = IF ok THEN r ELSE rsp
    /\ IF ok
       THEN /\ rca' = Shl(Add32(BitsOf(n), BitsOf(1)), RCA_ADDR)
            /\ pc' = "cmd3" /\ UNCHANGED err
       ELSE Fail("cmd") /\ UNCHANGED rca
    /\ UNCHANGED <<op, width, n, card, loc, elapsed, ret, heads, wr>>

initMMC_CMD3(ok, r) ==
    /\ op = "initMMC" /\ pc = "cmd3"
    /\ log' = Append(log, Cmd(3, rca, ok, r))
    /\ rsp' = IF ok THEN r ELSE rsp
    /\ IF ~ok THEN Fail("cmd")
       ELSE IF Get(rspWord(r, 0), STATUS_CURRENT_STATE, 15) # CURRENT_STATE_IDENT
       THEN Fail(IdentError(Get(rspWord(r, 0), STATUS_CURRENT_STATE, 15)))
       ELSE pc' = "cmd9" /\ UNCHANGED err
    /\ UNCHANGED <<op, width, n, card, rca, loc, elapsed, ret, heads, wr>>

\* CMD9, the CSD fields, the TRAN_SPEED check and the clock step
initMMC_CMD9(ok, r) ==
    /\ op = "initMMC" /\ pc = "cmd9"
    /\ rsp' = IF ok THEN r ELSE rsp
    /\ IF ~ok
       THEN /\ log' = Append(log, Cmd(9, rca, ok, r))
            /\ Fail("cmd") /\ UNCHANGED loc
       ELSE /\ loc' = [loc EXCEPT !.c_size_mult = rspVal(r, MMC_CSD_C_SIZE_MULT, 7),
                                  !.c_size = rspVal(r, MMC_CSD_C_SIZE, 4095),
                                  !.read_bl_len = rspVal(r, MMC_CSD_READ_BL_LEN, 15),
                                  !.ver = rspVal(r, MMC_CSD_SPEC_VERS, 15)]
            /\ IF rspVal(r, MMC_CSD_TRAN_SPEED, 255) = TRAN_SPEED_26MHZ
               THEN /\ log' = log \o <<Cmd(9, rca, ok, r), setClock(CLK_OFF, CLK_OFF),
                                       setClock(DVS_OP, SDCLKFS_OP)>>
                    /\ pc' = "cmd7" /\ UNCHANGED err
               ELSE /\ log' = Append(log, Cmd(9, rca, ok, r))
                    /\ Fail("tran_speed")
    /\ UNCHANGED <<op, width, n, card, rca, elapsed, ret, heads, wr>>

initMMC_CMD7(ok, r) ==
    /\ op = "initMMC" /\ pc = "cmd7"
    /\ log' = Append(log, Cmd(7, rca, ok, r))
    /\ rsp' = IF ok THEN r ELSE rsp
    /\ IF ok THEN pc' = "wait7" /\ UNCHANGED err ELSE Fail("cmd")
    /\ UNCHANGED <<op, width, n, card, rca, loc, elapsed, ret, heads, wr>>

\* the wait after CMD7 and the bus width switch statement
initMMC_waitState(ok) ==
    /\ op = "initMMC" /\ pc = "wait7"
    /\ log' = Append(log, Wait(CURRENT_STATE_TRAN, 1, ok))
    /\ IF ~ok THEN Fail("wait")
       ELSE IF BusWidthMMC(width) < 0 THEN Fail("width")
       ELSE pc' = "bus_width" /\ UNCHANGED err
    /\ UNCHANGED <<op, width, n, card, rca, rsp, loc, elapsed, ret, heads, wr>>

\* writeCardRegisterMMC(EXT_CSD_BUS_WIDTH, bus_width): the command
initMMC_BUS_WIDTH(ok, r) ==
    /\ op = "initMMC" /\ pc = "bus_width"
    /\ log' = Append(log, Cmd(6, SwitchArgMMC(EXT_CSD_BUS_WIDTH, BusWidthMMC(width)), ok, r))
    /\ rsp' = IF ok THEN r ELSE rsp
    /\ IF ok THEN pc' = "bus_width_wait" /\ UNCHANGED err ELSE Fail("cmd")
    /\ UNCHANGED <<op, width, n, card, rca, loc, elapsed, ret, heads, wr>>

\* its wait, then detectCapacityMMC up to the Extended CSD read, or through
\* the legacy decode to the version test
initMMC_BUS_WIDTH_wait(ok) ==
    /\ op = "initMMC" /\ pc = "bus_width_wait"
    /\ log' = Append(log, Wait(CURRENT_STATE_TRAN, 500, ok))
    /\ IF ~ok
       THEN Fail("wait") /\ UNCHANGED <<card, wr>>
       ELSE IF Emulation(loc.c_size)
       THEN /\ card' = [card EXCEPT !.BlockSize = MMC_DEFAULT_BLOCK_SIZE]
            /\ Wrote({"BlockSize"})
            /\ pc' = "ext_csd" /\ UNCHANGED err
       ELSE /\ card' = [card EXCEPT !.BlockSize = BlockSizeMMC(loc.read_bl_len),
                                    !.Blocks = BlocksMMC(loc.c_size, loc.c_size_mult)]
            /\ Wrote({"BlockSize", "Blocks"})
            /\ pc' = IF UpgradeDDR(loc.ver) THEN "hs_timing" ELSE "done"
            /\ UNCHANGED err
    /\ UNCHANGED <<op, width, n, rca, rsp, loc, elapsed, ret, heads>>

initMMC_EXT_CSD_rewrite(ok, extCSD) ==
    /\ op = "initMMC" /\ pc = "ext_csd"
    /\ log' = Append(log, Transfer(8, 1, MMC_DEFAULT_BLOCK_SIZE, ok, extCSD))
    /\ IF ~ok
       THEN Fail("transfer") /\ UNCHANGED <<card, wr>>
       ELSE /\ card' = [card EXCEPT !.BlockSize = MMC_DEFAULT_BLOCK_SIZE,
                                    !.Blocks = BlocksExtCSD(extCSD)]
            /\ Wrote({"BlockSize", "Blocks"})
            /\ pc' = IF UpgradeDDR(loc.ver) THEN "hs_timing" ELSE "done"
            /\ UNCHANGED err
    /\ UNCHANGED <<op, width, n, rca, rsp, loc, elapsed, ret, heads>>

\* the Extended CSD read of detectCapacityMMC, then the version test
initMMC_EXT_CSD(ok, extCSD) ==
    /\ op = "initMMC" /\ pc = "ext_csd"
    /\ log' = Append(log, Transfer(8, 1, MMC_DEFAULT_BLOCK_SIZE, ok, extCSD))
    /\ IF ~ok
       THEN Fail("transfer") /\ UNCHANGED <<card, wr>>
       ELSE /\ card' = [card EXCEPT !.Blocks = BlocksExtCSD(extCSD)]
            /\ Wrote({"Blocks"})
            /\ pc' = IF UpgradeDDR(loc.ver) THEN "hs_timing" ELSE "done"
            /\ UNCHANGED err
    /\ UNCHANGED <<op, width, n, rca, rsp, loc, elapsed, ret, heads>>

\* writeCardRegisterMMC(EXT_CSD_HS_TIMING, HS_TIMING_HS): the command
initMMC_HS_TIMING(ok, r) ==
    /\ op = "initMMC" /\ pc = "hs_timing"
    /\ log' = Append(log, Cmd(6, SwitchArgMMC(EXT_CSD_HS_TIMING, HS_TIMING_HS), ok, r))
    /\ rsp' = IF ok THEN r ELSE rsp
    /\ IF ok THEN pc' = "hs_timing_wait" /\ UNCHANGED err ELSE Fail("cmd")
    /\ UNCHANGED <<op, width, n, card, rca, loc, elapsed, ret, heads, wr>>

initMMC_HS_TIMING_wait_ignore(ok) ==
    /\ op = "initMMC" /\ pc = "hs_timing_wait"
    /\ log' = Append(log, Wait(CURRENT_STATE_TRAN, 500, ok))
    /\ pc' = "ddr" /\ UNCHANGED err
    /\ UNCHANGED <<op, width, n, card, rca, rsp, loc, elapsed, ret, heads, wr>>

\* its wait
initMMC_HS_TIMING_wait(ok) ==
    /\ op = "initMMC" /\ pc = "hs_timing_wait"
    /\ log' = Append(log, Wait(CURRENT_STATE_TRAN, 500, ok))
    /\ IF ok THEN pc' = "ddr" /\ UNCHANGED err ELSE Fail("wait")
    /\ UNCHANGED <<op, width, n, card, rca, rsp, loc, elapsed, ret, heads, wr>>

\* writeCardRegisterMMC(EXT_CSD_BUS_WIDTH, bus_width), DDR code: the command
initMMC_DDR(ok, r) ==
    /\ op = "initMMC" /\ pc = "ddr"
    /\ log' = Append(log, Cmd(6, SwitchArgMMC(EXT_CSD_BUS_WIDTH, BusWidthDDR(width)), ok, r))
    /\ rsp' = IF ok THEN r ELSE rsp
    /\ IF ok THEN pc' = "ddr_wait" /\ UNCHANGED err ELSE Fail("cmd")
    /\ UNCHANGED <<op, width, n, card, rca, loc, elapsed, ret, heads, wr>>

\* its wait, the clock step and the DDR and HS flags
initMMC_DDR_wait(ok) ==
    /\ op = "initMMC" /\ pc = "ddr_wait"
    /\ IF ~ok
       THEN /\ log' = Append(log, Wait(CURRENT_STATE_TRAN, 500, ok))
            /\ Fail("wait") /\ UNCHANGED <<card, wr>>
       ELSE /\ log' = log \o <<Wait(CURRENT_STATE_TRAN, 500, ok), setClock(CLK_OFF, CLK_OFF),
                               setClock(DVS_HS, SDCLKFS_HS_DDR)>>
            /\ card' = [card EXCEPT !.DDR = TRUE, !.HS = TRUE]
            /\ Wrote({"DDR", "HS"})
            /\ pc' = "done" /\ UNCHANGED err
    /\ UNCHANGED <<op, width, n, rca, rsp, loc, elapsed, ret, heads>>

Next ==
    \/ \E o \in Ops : Call(o)
    \/ \E ok \in BOOLEAN, r \in R7s : voltageValidationSD_CMD8(ok, r)
    \/ \E ok \in BOOLEAN, r \in R7s : voltageValidationSD_CMD8_LOW(ok, r)
    \/ \E ok \in BOOLEAN, r \in R1Idle : voltageValidationSD_CMD55(ok, r)
    \/ \E ok \in BOOLEAN, r \in OCRs, dt \in Dts : voltageValidationSD_ACMD41(ok, r, dt)
    \/ \E ok \in BOOLEAN, r \in OCRs, dt \in Dts : voltageValidationMMC_CMD1(ok, r, dt)

    \/ \E ok \in BOOLEAN, r \in CIDs : initSD_CMD2(ok, r)
    \/ \E ok \in BOOLEAN, r \in R6s : initSD_CMD3(ok, r)
    \/ \E ok \in BOOLEAN, r \in CSDsSD : initSD_CMD9(ok, r)
    \/ \E ok \in BOOLEAN, r \in R1Tran : initSD_CMD7(ok, r)
    \/ \E ok \in BOOLEAN : initSD_waitState(ok)
    \/ \E ok \in BOOLEAN, r \in R1App : initSD_CMD55(ok, r)
    \/ \E ok \in BOOLEAN, r \in R1Tran : initSD_ACMD6(ok, r)
    \/ \E ok \in BOOLEAN, r \in R1Tran : initSD_CMD6(ok, r)
    \/ \E ok \in BOOLEAN : initSD_waitState_HS(ok)

    \/ \E ok \in BOOLEAN, r \in CIDs : initMMC_CMD2(ok, r)
    \/ \E ok \in BOOLEAN, r \in R6s : initMMC_CMD3(ok, r)
    \/ \E ok \in BOOLEAN, r \in CSDsMMC : initMMC_CMD9(ok, r)
    \/ \E ok \in BOOLEAN, r \in R1Tran : initMMC_CMD7(ok, r)
    \/ \E ok \in BOOLEAN : initMMC_waitState(ok)
    \/ \E ok \in BOOLEAN, r \in R1Tran : initMMC_BUS_WIDTH(ok, r)
    \/ \E ok \in BOOLEAN : initMMC_BUS_WIDTH_wait(ok)
    \/ \E ok \in BOOLEAN, extCSD \in ExtCSDs : initMMC_EXT_CSD(ok, extCSD)
    \/ \E ok \in BOOLEAN, r \in R1Tran : initMMC_HS_TIMING(ok, r)
    \/ \E ok \in BOOLEAN : initMMC_HS_TIMING_wait(ok)
    \/ \E ok \in BOOLEAN, r \in R1Tran : initMMC_DDR(ok, r)
    \/ \E ok \in BOOLEAN : initMMC_DDR_wait(ok)

Spec == Init /\ [][Next]_vars

\* the two negotiation routines alone
NextVV ==
    \/ \E o \in {"voltageValidationSD", "voltageValidationMMC"} : Call(o)
    \/ \E ok \in BOOLEAN, r \in R7s : voltageValidationSD_CMD8(ok, r)
    \/ \E ok \in BOOLEAN, r \in R7s : voltageValidationSD_CMD8_LOW(ok, r)
    \/ \E ok \in BOOLEAN, r \in R1Idle : voltageValidationSD_CMD55(ok, r)
    \/ \E ok \in BOOLEAN, r \in OCRs, dt \in Dts : voltageValidationSD_ACMD41(ok, r, dt)
    \/ \E ok \in BOOLEAN, r \in OCRs, dt \in Dts : voltageValidationMMC_CMD1(ok, r, dt)

\* every command returns and the clock read follows: a routine that can take
\* a step eventually takes one
FairVV == Init /\ [][NextVV]_vars /\ WF_vars(NextVV)

\* ------------------------------------------------------------ properties
Done == pc = "done"

IsCmd(e, idx) == e.k = "cmd" /\ e.idx = idx

Entries(P(_)) == {i \in DOMAIN log : P(log[i])}

IsClock(e) == e.k = "clock"

\* the last setting given to setClock
LastClock == log[CHOOSE i \in Entries(IsClock) : \A j \in Entries(IsClock) : j <= i].clk

Failed == IF op \in {"initSD", "initMMC"} THEN err # "nil" ELSE ret = <<FALSE, FALSE>>

\* the width check of initSD is reached: CMD55 answered with the APP_CMD bit
AtWidthCheckSD == \E i \in DOMAIN log :
    IsCmd(log[i], 55) /\ log[i].ok /\ STATUS_APP_CMD \in log[i].r

\* the width check of initMMC is reached: the wait after CMD7 succeeded
AtWidthCheckMMC == \E i \in DOMAIN log : log[i].k = "wait" /\ log[i].ok

\* C1 as stated: a bring-up that ends with the unsupported-bus-width error
\* leaves every descriptor field at the value it had when the call started.
C1_Untouched == (Done /\ err = "width") => card = NewCard

\* C1, amended: with a width outside {1,4} initSD ends with the unsupported
\* width error whenever the width check is reached and issues no ACMD6, with
\* high_speed and ddr unassigned but block_size and block_count already
\* assigned by the capacity decode; with a width outside {4,8} initMMC ends
\* with the error and no descriptor field assigned.
C1_WidthError ==
    /\ (op = "initSD" /\ width \notin {1, 4}) =>
          /\ \A i \in DOMAIN log : ~IsCmd(log[i], 6)
          /\ AtWidthCheckSD => (Done /\ err = "width")
    /\ (op = "initMMC" /\ width \notin {4, 8}) =>
          /\ \A i \in DOMAIN log : ~IsCmd(log[i], 6)
          /\ AtWidthCheckMMC => (Done /\ err = "width")
    /\ (Done /\ err = "width" /\ op = "initSD") =>
          /\ width \notin {1, 4}
          /\ card.HS = FALSE /\ card.DDR = FALSE
          /\ wr = [BlockSize |-> 1, Blocks |-> 1, HS |-> 0, DDR |-> 0]
    /\ (Done /\ err = "width" /\ op = "initMMC") =>
          /\ width \notin {4, 8}
          /\ card = NewCard
          /\ wr = [BlockSize |-> 0, Blocks |-> 0, HS |-> 0, DDR |-> 0]

C1_Witness ==
    /\ Done /\ err = "width" /\ op = "initSD" /\ width = 8
    /\ card.BlockSize = 512 /\ card.Blocks > 0

IsSwitchOK(e) == IsCmd(e, 6) /\ e.ok /\ 31 \in e.arg

IsWait500(e) == e.k = "wait" /\ e.arg = BitsOf(500)

\* C2: in initSD high_speed is set exactly when the CMD6 switch command
\* returned success, whether the following wait succeeds or fails (then the
\* wait error is returned, with the clock at the high-speed divisor), and it
\* is never set before.
C2_HighSpeedIffSwitch ==
    op = "initSD" =>
        /\ card.HS => (Done /\ Entries(IsSwitchOK) # {})
        /\ Done => (card.HS <=> Entries(IsSwitchOK) # {})
        /\ (Done /\ Entries(IsSwitchOK) # {}) =>
              /\ LastClock = <<DVS_HS, SDCLKFS_HS_SDR>>
              /\ \E i \in Entries(IsWait500) : err = (IF log[i].ok THEN "nil" ELSE "wait")

C2_Witness ==
    /\ op = "initSD" /\ Done /\ err = "wait" /\ card.HS
    /\ LastClock = <<DVS_HS, SDCLKFS_HS_SDR>>

IsFailedCmd(e) == e.k = "cmd" /\ ~e.ok

\* C3 as stated: after any command error nothing more is issued and the
\* bring-up has failed, the CMD8 probes included.
C3_EveryErrorAborts ==
    \A i \in Entries(IsFailedCmd) : i = Len(log) /\ Done /\ Failed

IsFailedNotProbe(e) == IsFailedCmd(e) /\ ~(op = "voltageValidationSD" /\ e.idx = 8)

IsFailedProbe(e) == IsFailedCmd(e) /\ op = "voltageValidationSD" /\ e.idx = 8

\* C3, amended: an error of any command other than the two CMD8 probes of
\* voltageValidationSD ends the run at once, in failure; an error of a CMD8
\* probe is taken as a missing echo and the next command of the sequence
\* follows (the low-voltage CMD8 after the first, CMD55 after the second).
C3_ErrorAbortsButProbe ==
    /\ \A i \in Entries(IsFailedNotProbe) : i = Len(log) /\ Done /\ Failed
    /\ \A i \in Entries(IsFailedProbe) :
          /\ i \in {1, 2}
          /\ i = Len(log) => pc = (IF i = 1 THEN "cmd8low" ELSE "cmd55")
          /\ i < Len(log) => IsCmd(log[i + 1], IF i = 1 THEN 8 ELSE 55)
          /\ (i = 1 /\ Len(log) > 1) => log[2].arg = IfCondLow

C3_Witness ==
    /\ op = "voltageValidationSD" /\ Done
    /\ Len(log) = 6 /\ ~log[1].ok /\ ~log[2].ok /\ log[4].ok /\ ~log[6].ok

\* one second, in ticks
Deadline == TicksPerSecond

\* the loop condition ended the loop: the last time read is past the deadline
TimedOut == op \in {"voltageValidationSD", "voltageValidationMMC"} /\ Done
               /\ heads[Len(heads)] > Deadline

\* a command of the polling loop failed
LoopCmdError == op \in {"voltageValidationSD", "voltageValidationMMC"} /\ Done
                   /\ IsFailedCmd(log[Len(log)])

\* C4 as stated: on a deadline timeout the negotiation returns a value other
\* than the one it returns on a command error.
C4_TimeoutDistinct == TimedOut => ret # ErrorReturn

\* C4, amended: the negotiation returns the same pair (false, false) on a
\* deadline timeout and on an error of CMD55, ACMD41 or CMD1; only success,
\* (true, hc), differs from both.
C4_SameFailureValue ==
    /\ TimedOut => ret = <<FALSE, FALSE>>
    /\ LoopCmdError => ret = <<FALSE, FALSE>>
    /\ (op \in {"voltageValidationSD", "voltageValidationMMC"} /\ Done /\ ret[1]) =>
          (~TimedOut /\ ~LoopCmdError)

C4_Witness == TimedOut /\ op = "voltageValidationMMC" /\ Len(log) = 2 /\ ret = ErrorReturn

VV == {"voltageValidationSD", "voltageValidationMMC"}

\* the operating-condition commands of the running loop, in order
IsPoll(e) == IsCmd(e, IF op = "voltageValidationSD" THEN 41 ELSE 1)
Polls == SelectSeq(log, IsPoll)

Busy(e) == e.ok /\ 31 \in e.r

Is55(e) == IsCmd(e, 55)

\* C5: with no command error and the busy bit clear in the first N answers
\* and set in answer N+1, the loop issues exactly N+1 CMD55+ACMD41 pairs
\* (N+1 CMD1) and succeeds when the time read at the head of each of these
\* N+1 iterations is within the deadline; once the time read at a loop head
\* is past the deadline the routine fails and issues nothing more.
C5_Polling ==
    op \in VV =>
        \* every iteration was entered within the deadline, and every answer
        \* but the last left the card busy
        /\ Len(Polls) <= Len(heads)
        /\ \A i \in 1..Len(Polls) : heads[i] <= Deadline
        /\ \A i \in 1..(Len(Polls) - 1) : Polls[i].ok /\ ~Busy(Polls[i])
        /\ op = "voltageValidationSD" =>
              Cardinality(Entries(Is55)) = Len(Polls) + (IF pc = "acmd41" THEN 1 ELSE 0)
                  + (IF Done /\ Is55(log[Len(log)]) THEN 1 ELSE 0)
        \* answer N+1 has the bit set: success after exactly N+1 iterations
        /\ (Len(Polls) > 0 /\ Busy(Polls[Len(Polls)])) =>
              /\ Done /\ ret[1]
              /\ Len(heads) = Len(Polls)
              /\ IsPoll(log[Len(log)])
        /\ (Done /\ ret[1]) => (Len(Polls) > 0 /\ Busy(Polls[Len(Polls)]))
        \* the deadline passed before iteration N+1: failure, nothing more
        /\ (Len(heads) > 0 /\ heads[Len(heads)] > Deadline) =>
              /\ Done /\ ret = <<FALSE, FALSE>>
              /\ Len(Polls) = Len(heads) - 1
              /\ IsPoll(log[Len(log)]) /\ log[Len(log)].ok /\ ~Busy(log[Len(log)])
        \* a run that ended without command error ended in one of the two ways
        /\ (Done /\ ~IsFailedCmd(log[Len(log)])) =>
              \/ Busy(Polls[Len(Polls)])
              \/ heads[Len(heads)] > Deadline

C5_Witness ==
    /\ op = "voltageValidationSD" /\ Done /\ ret[1]
    /\ Len(Polls) = 3 /\ Cardinality(Entries(Is55)) = 3
    /\ heads = <<0, 1, 3>>

\* the CSD latched by CMD9 is still in the response registers
DecodedSD == op = "initSD" /\ pc = "cmd7"

\* C6: for CSD structure versions 0, 1 and 2 and every read_bl_len in 0..15,
\* detectCapacitySD sets block_size to 2^read_bl_len.
C6_BlockSizePow2 ==
    DecodedSD => card.BlockSize = 2 ^ rspVal(rsp, SD_CSD_READ_BL_LEN_1, 15)

\* C7: block_count is (C_SIZE + 1) * 2^(C_SIZE_MULT + 2) for CSD structure
\* version 0 and (C_SIZE + 1) * 1024 for versions 1 and 2 (22-bit and 28-bit
\* C_SIZE), for every value of the fields.
C7_BlocksFormula ==
    DecodedSD =>
        LET ver == rspVal(rsp, SD_CSD_STRUCTURE, 3)
        IN  /\ ver = 0 =>
                 card.Blocks = (rspVal(rsp, SD_CSD_C_SIZE_1, 4095) + 1)
                                  * 2 ^ (rspVal(rsp, SD_CSD_C_SIZE_MULT_1, 7) + 2)
            /\ ver = 1 =>
                 /\ card.Blocks >= 0 /\ card.Blocks % 1024 = 0
                 /\ card.Blocks \div 1024 = rspVal(rsp, SD_CSD_C_SIZE_2, 4194303) + 1
            /\ ver = 2 =>
                 /\ card.Blocks >= 0 /\ card.Blocks % 1024 = 0
                 /\ card.Blocks \div 1024 = rspVal(rsp, SD_CSD_C_SIZE_2, 268435455) + 1

IsTransfer(e) == e.k = "transfer"

\* the capacity decode of initMMC has run to its end
DecodedMMC == op = "initMMC" /\ wr.Blocks > 0

\* v is the value of the little-endian 32-bit word made of the four bytes d
IsLittleEndianValue(v, d) ==
    /\ v >= 0
    /\ v % 16777216 = d[1] + 256 * d[2] + 65536 * d[3]
    /\ v \div 16777216 = d[4]

\* C8: with c_size <= 0xff detectCapacityMMC gives the block_size and
\* block_count the SD decoder gives for CSD structure version 0 from the same
\* c_size_mult, c_size and read_bl_len, and reads no Extended CSD; with
\* c_size > 0xff it issues exactly one one-block Extended CSD read (CMD8),
\* block_size is the 512-byte transfer block size and block_count is the
\* value of the little-endian 32-bit word at byte 212 of the block, whatever
\* the CSD fields are.
C8_CapacityMMC ==
    /\ (op = "initMMC" /\ Entries(IsTransfer) # {}) => loc.c_size > 255
    /\ (DecodedMMC /\ loc.c_size <= 255) =>
          LET sd == detectCapacitySD(MkCSD(0, 0, 0, loc.read_bl_len,
                                           loc.c_size_mult, loc.c_size, 0))
          IN  /\ sd.ok
              /\ card.BlockSize = sd.BlockSize
              /\ card.Blocks = sd.Blocks
              /\ Entries(IsTransfer) = {}
    /\ (DecodedMMC /\ loc.c_size > 255) =>
          /\ Cardinality(Entries(IsTransfer)) = 1
          /\ \A i \in Entries(IsTransfer) :
                /\ log[i].idx = 8 /\ log[i].ok
                /\ log[i].blocks = 1 /\ log[i].arg = BitsOf(512)
                /\ IsLittleEndianValue(card.Blocks, log[i].data)
          /\ card.BlockSize = 512

\* the Extended CSD register a CMD6 write addresses, and the value written
IsWrite(e) == IsCmd(e, 6)
Register(e) == Get(e.arg, 16, 255)
Value(e) == Get(e.arg, 8, 255)

IsBusWidthWrite(e) == IsWrite(e) /\ Register(e) = 183
IsHsTimingWrite(e) == IsWrite(e) /\ Register(e) = 185
IsDdrWrite(e) == IsBusWidthWrite(e) /\ Value(e) \in {5, 6}

\* C9: initMMC issues the HS_TIMING write and the DDR BUS_WIDTH write only
\* for a specification version >= 4; for a lower version it returns success
\* right after the capacity decode with ddr and high_speed false, one
\* BUS_WIDTH write, no HS_TIMING write and the clock at the operating divisor.
C9_DdrGate ==
    op = "initMMC" =>
        /\ (Entries(IsHsTimingWrite) # {} \/ Entries(IsDdrWrite) # {}) => loc.ver >= 4
        /\ (DecodedMMC /\ loc.ver < 4) =>
              /\ Done /\ err = "nil"
              /\ card.DDR = FALSE /\ card.HS = FALSE
              /\ Cardinality(Entries(IsBusWidthWrite)) = 1
              /\ Entries(IsHsTimingWrite) = {}
              /\ LastClock = <<DVS_OP, SDCLKFS_OP>>
              /\ log[Len(log)].k \in {"wait", "transfer"}
        /\ (DecodedMMC /\ loc.ver >= 4 /\ Len(log) > 0 /\ log[Len(log)].k = "transfer") =>
              pc = "hs_timing"

C9_Witness ==
    /\ op = "initMMC" /\ Done /\ err = "nil" /\ loc.ver = 3
    /\ card.Blocks > 0 /\ card.DDR = FALSE /\ card.HS = FALSE

Is3(e) == IsCmd(e, 3)

IsAddressed(e) == e.k = "cmd" /\ e.idx \in {9, 7, 55}

\* C10: in initSD the RCA is the high 16 bits of the CMD3 answer, low 16 bits
\* clear; in initMMC it is (slot + 1) << 16, set before CMD3, sent as the
\* CMD3 argument and never taken from an answer; every CMD9, CMD7 and CMD55
\* after CMD3 carries the RCA as its argument.
C10_Rca ==
    /\ op = "initSD" =>
          /\ \A i \in Entries(Is3) : log[i].arg = {}
          /\ \A i \in Entries(Is3) :
                (log[i].ok /\ Get(log[i].r, 9, 15) = 2) =>
                /\ pc # "cmd3"
                /\ rca \cap (0..15) = {}
                /\ rca \cap (16..31) = log[i].r \cap (16..31)
          /\ \A i \in Entries(IsAddressed) : log[i].arg = rca
    /\ op = "initMMC" =>
          /\ pc # "cmd2" =>
                (Done /\ Len(log) = 1) \/ (rca \cap (0..15) = {} /\ Val(Shr(rca, 16)) = n + 1)
          /\ \A i \in Entries(Is3) : log[i].arg = rca
          /\ \A i \in Entries(IsAddressed) : log[i].arg = rca

C10_Witness ==
    /\ op = "initSD" /\ Done /\ err = "nil"
    /\ Val(Shr(rca, 16)) = 43690
    /\ \E i \in Entries(Is3) : log[i].r \cap (0..15) # {}
    /\ Cardinality(Entries(IsAddressed)) = 3

\* ------------------------------------------------------------ claims C11..
Last == log[Len(log)]

\* the run of voltageValidationSD ended on an ACMD41 answer with busy set
ReadySD == /\ op = "voltageValidationSD" /\ Done /\ Len(log) > 0
           /\ IsCmd(Last, 41) /\ Busy(Last)

\* C11: when the ACMD41 answer has busy set, the hc returned by
\* voltageValidationSD equals bit 30 of that answer, whatever the CMD8
\* outcome; a card whose CMD8 echo matched and whose answer has bit 30 clear
\* is reported as not high-capacity.
C11_HcIsCapacityBit ==
    ReadySD => /\ ret[1] = TRUE
               /\ ret[2] = (30 \in Last.r)

NotIdent(e) == IsCmd(e, 3) /\ e.ok /\ Get(e.r, 9, 15) # 2

\* C12: in initSD and initMMC, when the CMD3 answer carries a state other
\* than Identification the run ends with the error that names that state,
\* CMD3 is the last call on the controller (no CMD9 or later command, no
\* clock programming), initSD has not latched the RCA, and no descriptor
\* field was written.
C12_IdentCheck ==
    op \in {"initSD", "initMMC"} =>
       \A i \in Entries(NotIdent) :
          /\ Done
          /\ err = IdentErrors[Get(log[i].r, 9, 15) + 1]
          /\ i = Len(log)
          /\ Entries(IsClock) = {}
          /\ op = "initSD" => rca = {}
          /\ card = NewCard
          /\ \A f \in DOMAIN wr : wr[f] = 0

C12_Witness ==
    /\ op = "initSD" /\ Done /\ Len(log) = 2
    /\ NotIdent(Last) /\ Get(Last.r, 9, 15) = 3
    /\ Last.r \cap (16..31) # {}
    /\ err = "card not in ident state (3)"

IsWaitEntry(e) == e.k = "wait"

WaitsBefore(i) == {j \in Entries(IsWaitEntry) : j < i}

\* the most recent wait before entry i
LastWaitBefore(i) == CHOOSE j \in WaitsBefore(i) : \A m \in WaitsBefore(i) : m <= j

NeedsTranSD(e) == e.k = "cmd" /\ e.idx \in {55, 6}

NeedsTranMMC(e) == IsCmd(e, 6) \/ IsTransfer(e)

\* C13: in initSD, CMD55, ACMD6 and the CMD6 switch are issued only after the
\* wait for Transfer state that follows CMD7 returned success; in initMMC
\* every Extended CSD register write (CMD6) and the Extended CSD read are
\* issued only after the most recent wait for Transfer state before them
\* (after CMD7 or after the previous register write) returned success.
C13_TransferFirst ==
    /\ op = "initSD" =>
          \A i \in Entries(NeedsTranSD) :
             /\ WaitsBefore(i) # {}
             /\ \A j \in WaitsBefore(i) :
                   /\ log[j].ok /\ log[j].idx = 4
                   /\ j > 1 /\ IsCmd(log[j - 1], 7) /\ log[j - 1].ok
    /\ op = "initMMC" =>
          \A i \in Entries(NeedsTranMMC) :
             /\ WaitsBefore(i) # {}
             /\ log[LastWaitBefore(i)].ok /\ log[LastWaitBefore(i)].idx = 4
             /\ LET j == LastWaitBefore(i)
                IN  IsCmd(log[j - 1], 7) \/ IsCmd(log[j - 1], 6)

C13_Witness ==
    /\ op = "initMMC" /\ Done /\ err = "nil"
    /\ Cardinality(Entries(IsWrite)) = 3
    /\ Cardinality(Entries(IsTransfer)) = 1
    /\ Cardinality(Entries(IsWaitEntry)) = 4

\* C14: after every successful return of initSD or initMMC the descriptor has
\* block_size > 0 and block_count > 0, for every value of the fields the card
\* supplies (read_bl_len 0..15, the full C_SIZE width, any 32-bit sector
\* count), block_count being a signed 32-bit int.
C14_GeometryPositive ==
    (op \in {"initSD", "initMMC"} /\ Done /\ err = "nil") =>
       /\ card.BlockSize > 0
       /\ card.Blocks > 0

\* C15: during one run of initSD or initMMC each descriptor field (block
\* size, block count, high speed, DDR) is assigned at most once, on every
\* path, and a field never assigned keeps its initial value.
C15_WriteOnce ==
    \A f \in DOMAIN wr :
       /\ wr[f] <= 1
       /\ wr[f] = 0 => card[f] = NewCard[f]

C15_Witness ==
    /\ op = "initMMC" /\ Done /\ err = "nil"
    /\ Cardinality(Entries(IsTransfer)) = 1
    /\ \A f \in DOMAIN wr : wr[f] = 1
    /\ card.DDR /\ card.HS /\ card.BlockSize = 512 /\ card.Blocks = 1

Is8(e) == IsCmd(e, 8)

Is41(e) == IsCmd(e, 41)

\* the answer of a CMD8 entry is the exact echo of its argument
Echoed(e) == e.ok /\ e.r \cap (0..31) = e.arg

\* hc and hv as the CMD8 entries of the log decide them
ProbedHc == Echoed(log[1]) \/ Echoed(log[2])
ProbedHv == Echoed(log[1]) \/ ~Echoed(log[2])

\* C16: voltageValidationSD first sends CMD8 with the high-voltage tag and
\* pattern 0xAA; an exact echo gives hc = hv = true and no second CMD8;
\* otherwise a second CMD8 with the low-voltage tag is sent, whose exact echo
\* gives hc = true, hv = false and whose absence gives hc = false, hv = true.
\* The ACMD41 argument has bits 30 and 28 set iff hc, bits 15..23 all set and
\* bit 7 clear iff hv, bit 7 set and bits 15..23 clear iff not hv, all other
\* bits zero, and is the same in every iteration.
C16_ProbeAndArgument ==
    (op = "voltageValidationSD" /\ Len(log) > 0) =>
       /\ Is8(log[1]) /\ log[1].arg = {8, 7, 5, 3, 1}
       /\ Echoed(log[1]) => Entries(Is8) = {1}
       /\ (~Echoed(log[1]) /\ Len(log) > 1) =>
             /\ Entries(Is8) = {1, 2}
             /\ log[2].arg = {9, 7, 5, 3, 1}
       /\ pc \in {"cmd55", "acmd41"} =>
             /\ loc.hc = ProbedHc
             /\ loc.hv = ProbedHv
       /\ \A i \in Entries(Is41) :
             /\ {30, 28} \subseteq log[i].arg <=> ProbedHc
             /\ {30, 28} \cap log[i].arg = {} <=> ~ProbedHc
             /\ ((15..23) \subseteq log[i].arg /\ 7 \notin log[i].arg) <=> ProbedHv
             /\ ((15..23) \cap log[i].arg = {} /\ 7 \in log[i].arg) <=> ~ProbedHv
             /\ log[i].arg \subseteq ({30, 28, 7} \cup (15..23))
             /\ \A j \in Entries(Is41) : log[j].arg = log[i].arg

C16_Witness ==
    /\ op = "voltageValidationSD" /\ Done
    /\ Cardinality(Entries(Is8)) = 2 /\ Echoed(log[2])
    /\ Cardinality(Entries(Is41)) >= 2
    /\ Last.arg = {30, 28, 7}
    /\ ret = <<TRUE, TRUE>>

IsCommand(e) == e.k = "cmd"

\* the indices of the commands issued so far, in order
Cmds == [i \in 1..Len(SelectSeq(log, IsCommand)) |-> SelectSeq(log, IsCommand)[i].idx]

IsPrefix(s, t) == Len(s) <= Len(t) /\ \A i \in 1..Len(s) : s[i] = t[i]

OrderSD == <<2, 3, 9, 7, 55, 6, 6>>

\* entry i is the last call made and the run has ended with an error
CutAt(i) == i = Len(log) /\ Done /\ err # "nil"

IsClockTo(e, dvs, sdclkfs) == IsClock(e) /\ e.clk = <<dvs, sdclkfs>>

\* C17: the commands of initSD are a prefix of CMD2, CMD3, CMD9, CMD7, CMD55,
\* ACMD6, CMD6 (switch); the run succeeds only if the whole sequence was
\* issued; the sequence is cut right after the step whose check fails (a
\* command error, a CMD3 state other than Identification, CSD structure
\* version 3, a wait timeout after CMD7, the app-command bit clear after
\* CMD55, an unsupported width before ACMD6); the clock is set to the
\* operating divisor only between CMD3 and CMD9 and to the high-speed divisor
\* only after CMD6 succeeded, each time right after a clock disable.
C17_OrderSD ==
    op = "initSD" =>
       /\ IsPrefix(Cmds, OrderSD)
       /\ Entries(IsTransfer) = {}
       /\ (Done /\ err = "nil") => Cmds = OrderSD
       /\ (Done /\ Cmds # OrderSD) => err # "nil"
       /\ \A i \in DOMAIN log :
             /\ IsFailedCmd(log[i]) => CutAt(i)
             /\ NotIdent(log[i]) => CutAt(i)
             /\ (IsCmd(log[i], 9) /\ log[i].ok /\ Get(Shr(log[i].r, 118), 0, 3) = 3)
                   => CutAt(i)
             /\ (IsWaitEntry(log[i]) /\ ~log[i].ok /\ IsCmd(log[i - 1], 7)) => CutAt(i)
             /\ (IsCmd(log[i], 55) /\ log[i].ok /\ 5 \notin log[i].r) => CutAt(i)
             /\ (IsCmd(log[i], 55) /\ log[i].ok /\ width \notin {1, 4}) => CutAt(i)
             /\ (i = 6 /\ IsCmd(log[i], 55) /\ log[i].ok /\ 5 \in log[i].r /\ width \in {1, 4})
                   => ~CutAt(i)
             /\ IsClockTo(log[i], DVS_OP, SDCLKFS_OP) =>
                   /\ i = 4 /\ IsClockTo(log[3], CLK_OFF, CLK_OFF)
                   /\ IsCmd(log[2], 3) /\ log[2].ok
                   /\ Len(log) > 4 => IsCmd(log[5], 9)
             /\ IsClockTo(log[i], DVS_HS, SDCLKFS_HS_SDR) =>
                   /\ i = Len(log) /\ IsClockTo(log[i - 1], CLK_OFF, CLK_OFF)
                   /\ IsWait500(log[i - 2])
                   /\ IsSwitchOK(log[i - 3])
             /\ IsClock(log[i]) =>
                   \/ IsClockTo(log[i], DVS_OP, SDCLKFS_OP)
                   \/ IsClockTo(log[i], DVS_HS, SDCLKFS_HS_SDR)
                   \/ /\ IsClockTo(log[i], CLK_OFF, CLK_OFF)
                      /\ i < Len(log) /\ IsClock(log[i + 1])
                      /\ ~IsClockTo(log[i + 1], CLK_OFF, CLK_OFF)

C17_Witness ==
    /\ op = "initSD" /\ Done /\ err = "nil"
    /\ Cmds = OrderSD
    /\ Cardinality(Entries(IsClock)) = 4
    /\ IsClockTo(Last, DVS_HS, SDCLKFS_HS_SDR)

IsCall(e) == IsCommand(e) \/ IsTransfer(e)

\* the commands and data reads issued so far, in order
Calls == [i \in 1..Len(SelectSeq(log, IsCall)) |->
             <<SelectSeq(log, IsCall)[i].k, SelectSeq(log, IsCall)[i].idx>>]

\* the CSD fields of the CMD9 entry e
CSizeOf(e) == Get(Shr(e.r, 54), 0, 4095)
VersOf(e) == Get(Shr(e.r, 114), 0, 15)
TranSpeedOf(e) == Get(Shr(e.r, 88), 0, 255)

OrderMMC(c_size, ver) ==
    <<<<"cmd", 2>>, <<"cmd", 3>>, <<"cmd", 9>>, <<"cmd", 7>>, <<"cmd", 6>>>>
       \o (IF c_size > 255 THEN <<<<"transfer", 8>>>> ELSE <<>>)
       \o (IF ver >= 4 THEN <<<<"cmd", 6>>, <<"cmd", 6>>>> ELSE <<>>)

Is9(e) == IsCmd(e, 9)

IsWaitOK(e) == IsWaitEntry(e) /\ e.ok /\ e.idx = 4

\* the k-th register write of the log
WriteAt(k) == SelectSeq(log, IsWrite)[k]

\* C18: the commands of initMMC are a prefix of CMD2, CMD3, CMD9, CMD7,
\* CMD6 (BUS_WIDTH = 1 for width 4, 2 for width 8), the Extended CSD read
\* (present iff c_size > 0xff), CMD6 (HS_TIMING = 1), CMD6 (BUS_WIDTH = 5 for
\* width 4, 6 for width 8), the last two only for version >= 4; a TRAN_SPEED
\* other than 0x32 ends the run right after CMD9 with no clock change and no
\* CMD7; the clock is set to the DDR high-speed divisor, and the DDR and HS
\* flags are set, only after the HS_TIMING write and the DDR BUS_WIDTH write
\* (command and wait) both succeeded.
C18_OrderMMC ==
    op = "initMMC" =>
       /\ Len(log) < 4 => IsPrefix(Calls, OrderMMC(0, 0))
       /\ \A i \in Entries(Is9) :
             /\ i = 3
             /\ log[i].ok =>
                   /\ IsPrefix(Calls, OrderMMC(CSizeOf(log[i]), VersOf(log[i])))
                   /\ (Done /\ err = "nil") =>
                         Calls = OrderMMC(CSizeOf(log[i]), VersOf(log[i]))
                   /\ TranSpeedOf(log[i]) # 50 =>
                         /\ CutAt(i)
                         /\ Entries(IsClock) = {}
             /\ ~log[i].ok => CutAt(i)
       /\ (Done /\ err = "nil") => Len(Calls) >= 5
       /\ Len(SelectSeq(log, IsWrite)) >= 1 =>
             /\ Register(WriteAt(1)) = 183
             /\ Value(WriteAt(1)) = (IF width = 4 THEN 1 ELSE 2)
             /\ width \in {4, 8}
       /\ Len(SelectSeq(log, IsWrite)) >= 2 =>
             /\ Register(WriteAt(2)) = 185
             /\ Value(WriteAt(2)) = 1
       /\ Len(SelectSeq(log, IsWrite)) >= 3 =>
             /\ Register(WriteAt(3)) = 183
             /\ Value(WriteAt(3)) = (IF width = 4 THEN 5 ELSE 6)
       /\ \A i \in DOMAIN log :
             IsClockTo(log[i], DVS_HS, SDCLKFS_HS_DDR) =>
                /\ i = Len(log) /\ IsClockTo(log[i - 1], CLK_OFF, CLK_OFF)
                /\ IsWaitOK(log[i - 2])
                /\ IsWrite(log[i - 3]) /\ log[i - 3].ok /\ Register(log[i - 3]) = 183
                /\ IsWaitOK(log[i - 4])
                /\ IsWrite(log[i - 5]) /\ log[i - 5].ok /\ Register(log[i - 5]) = 185
       /\ \A i \in Entries(IsClock) :
             \/ IsClockTo(log[i], DVS_HS, SDCLKFS_HS_DDR)
             \/ IsClockTo(log[i], DVS_OP, SDCLKFS_OP) /\ i = 5
             \/ IsClockTo(log[i], CLK_OFF, CLK_OFF) /\ i < Len(log)
       /\ (card.DDR \/ card.HS) =>
             /\ card.DDR /\ card.HS
             /\ IsClockTo(Last, DVS_HS, SDCLKFS_HS_DDR)

C18_Witness ==
    /\ op = "initMMC" /\ Done /\ err = "nil" /\ width = 8
    /\ Len(Calls) = 8 /\ Calls[6] = <<"transfer", 8>>
    /\ Value(WriteAt(3)) = 6
    /\ card.DDR /\ card.HS
    /\ IsClockTo(Last, DVS_HS, SDCLKFS_HS_DDR)

NeverBusy == \A i \in 1..Len(Polls) : ~Busy(Polls[i])

\* what holds of the polling loops at every moment
BoundedPolling ==
    op \in VV =>
       /\ Len(Polls) <= Len(heads)
       /\ \A i \in 1..Len(Polls) : heads[i] <= Deadline
       /\ \A i \in 1..(Len(heads) - 1) : heads[i] < heads[i + 1]
       /\ Len(Polls) <= Deadline + 1
       /\ (Done /\ NeverBusy) => ret = <<FALSE, FALSE>>
       /\ (Len(heads) > 0 /\ heads[Len(heads)] > Deadline) => (Done /\ Len(Polls) < Len(heads))

\* C19: with a clock that strictly advances and commands that always return,
\* voltageValidationSD and voltageValidationMMC eventually return whatever
\* the card answers; when the card never reports busy set they return
\* (false, false); and no command is started once the elapsed time read at
\* the loop head exceeds one second.
C19_Termination ==
    /\ [] BoundedPolling
    /\ (op \in VV) ~> Done

C19_Witness ==
    /\ op = "voltageValidationSD" /\ Done /\ TimedOut /\ NeverBusy
    /\ Len(Polls) = Deadline + 1
    /\ ret = <<FALSE, FALSE>>

\* the CMD6 that follows ACMD6 in initSD
SwitchEntries == {i \in Entries(IsWrite) : i > 1 /\ IsCmd(log[i - 1], 6)}

\* C20: the argument of the CMD6 switch of initSD has the mode bit (31) equal
\* to 1, the access mode function group (bits 3..0) equal to 0x1, and every
\* other function group in bits 23..4 equal to 0xF.
C20_SwitchArgument ==
    op = "initSD" =>
       \A i \in SwitchEntries :
          /\ 31 \in log[i].arg
          /\ log[i].arg \cap (0..3) = {0}
          /\ \A g \in 1..5 : Get(log[i].arg, 4 * g, 15) = 15

C20_Witness ==
    /\ op = "initSD" /\ Done /\ err = "nil"
    /\ SwitchEntries # {}
    /\ \A i \in SwitchEntries : log[i].ok /\ log[i].arg = {0} \cup (4..31)

====
